---- MODULE Spec2Model ----
(***************************************************************************)
(* A model of scaffoldpy (src/src/scaffoldpy):                             *)
(*  - plugins.py: the plugin classes and their `dependencies` attributes,  *)
(*    PluginDependencyGraph.add_plugin and get_build_order (Kahn's         *)
(*    algorithm over a defaultdict(list) of outgoing edges and a set of    *)
(*    known plugins), and the build methods of the shipped plugins Core,   *)
(*    ReadMe, PyProjectToml (specification Spec); get_build_order one      *)
(*    loop iteration per step (LoopSpec, and LoopFairSpec with weak        *)
(*    fairness of the iteration); the same registrations replayed in       *)
(*    another interpreter process (TwoProcessSpec);                        *)
(*  - builders.py: build_basic_project, one action per build step          *)
(*    (specification ScaffoldSpec); the package directory and the tables   *)
(*    of pyproject.toml, for build_basic_project and the shipped plugins   *)
(*    (BuildSpec);                                                         *)
(*  - cli.py: prompt_for_user_config, prompt_for_project_config and main,  *)
(*    one action per step of main (specification CliSpec).                 *)
(***************************************************************************)
EXTENDS Integers, Sequences, FiniteSets, TLC

VARIABLES
    dependencies,   \* class attribute `dependencies` of every plugin class of the process
    hashOrder,      \* the classes in the order the set _plugins iterates them
    _graph,         \* PluginDependencyGraph._graph: dict plugin -> list of dependents
    _plugins,       \* PluginDependencyGraph._plugins: set of known plugins
    hist,           \* the arguments of the add_plugin calls made so far, in call order
    outcome,        \* what the latest get_build_order call since the last add_plugin did
    started,        \* the plugins whose build has been invoked in this run, in order
    status,         \* "running", or how the process ended inside a build
    root,           \* what the project root is on disk
    written,        \* what the builds created under the project root
    pc,             \* the position of the process in build_basic_project
    cfg,            \* config["project_config"] of the process
    stdout,         \* what the process has printed, in order
    git,            \* the results of the git commands build_vcs has run
    runs,           \* the number of processes started on this project root
    before,         \* root and written as they were when this process started
    succeeded,      \* an earlier process on this root ran to completion
    args,           \* MAIN_ARGS.parse_args(): project_name and skip_config
    git_user_config,        \* what get_user_config() returns
    config_file,            \* the configuration file at config_path
    asked,                  \* the questions put to the user, with the answers
    user_config,            \* main's local user_config
    project_config,         \* main's local project_config
    update_needed,          \* main's local update_needed
    DEFAULT_PROJECT_CONFIG, \* the module-level dict of scaffoldpy.models
    built,                  \* the arguments of main's build_basic_project calls
    dumps,                  \* the number of dump_config calls
    call,           \* get_build_order in progress: its position and its locals
    work,           \* what that call has put into its queue and decremented so far
    src_folder,     \* the package directory this process has created
    pyproject_toml  \* the tables of the file pyproject.toml under the project root

\* the state of main (src/src/scaffoldpy/cli.py)
cliVars == <<args, git_user_config, config_file, asked, user_config, project_config,
             update_needed, DEFAULT_PROJECT_CONFIG, built, dumps>>

\* a get_build_order call that is followed statement by statement
loopVars == <<call, work>>

\* the process and its history, which the plugin graph does not touch
runVars == <<pc, cfg, stdout, git, runs, before, succeeded, cliVars, loopVars,
             src_folder, pyproject_toml>>

vars == <<dependencies, hashOrder, _graph, _plugins, hist, outcome,
          started, status, root, written, runVars>>

---------------------------------------------------------------------------
(* Bounds of the model.                                                    *)

\* the largest number of add_plugin calls on one graph
MaxAdds == 3

\* the largest total number of entries in the `dependencies` lists of the
\* user-defined plugin classes of one process
MaxEdges == 3

---------------------------------------------------------------------------
(* The plugin classes.                                                     *)

ShippedPlugins == {"Core", "ReadMe", "PyProjectToml"}

\* plugin classes defined by the user of the library (the Plugin subclasses
\* of the spec's scenarios); their `dependencies` are arbitrary
UserPlugins == {"A", "B", "C"}

Core_dependencies == <<>>

\* ReadMe declared without its dependency on Core
ReadMe_dependencies_empty == <<>>

ReadMe_dependencies == <<"Core">>

PyProjectToml_dependencies == <<"Core">>

ShippedDependencies ==
    [p \in ShippedPlugins |->
        CASE p = "Core" -> Core_dependencies
          [] p = "ReadMe" -> ReadMe_dependencies
          [] p = "PyProjectToml" -> PyProjectToml_dependencies]

\* every list of at most n user plugin classes (repetitions allowed)
DependencyLists(n) == UNION {[1..k -> UserPlugins] : k \in 0..n}

RECURSIVE TotalLen(_, _)
TotalLen(d, S) ==
    IF S = {} THEN 0
    ELSE LET p == CHOOSE x \in S : TRUE
         IN Len(d[p]) + TotalLen(d, S \ {p})

UserDependencies ==
    {d \in [UserPlugins -> DependencyLists(MaxEdges)] :
        TotalLen(d, UserPlugins) <= MaxEdges}

\* the plugin classes of this process
Plugins == DOMAIN dependencies

\* all orderings of the set S, as sequences
Orderings(S) ==
    {s \in [1..Cardinality(S) -> S] : \A i, j \in DOMAIN s : i # j => s[i] # s[j]}

SeqToSet(s) == {s[i] : i \in DOMAIN s}

\* iterating a Python set: the order is that of the hash-table slots, which
\* the elements' hashes (for a class, derived from its address) and the
\* collisions met on insertion decide, not the order of insertion as such.
\* Nothing is removed and the table of at most four elements is never
\* resized, so the set iterates at every moment in one order of the classes,
\* restricted to the elements present.  The program does not determine which
\* order: hashOrder is any ordering, and it is the same for every graph of
\* the process that receives the same add_plugin calls; another process has
\* an order of its own
SetIter(S) == SelectSeq(hashOrder, LAMBDA x : x \in S)

---------------------------------------------------------------------------
(* defaultdict(list)                                                       *)

EmptyDict == [k \in {} |-> <<>>]

\* reading d[k]: the default factory's empty list for a missing key
DictGet(d, k) == IF k \in DOMAIN d THEN d[k] ELSE <<>>

DictSet(d, k, v) == [x \in (DOMAIN d) \cup {k} |-> IF x = k THEN v ELSE d[x]]

\* the side effect of reading d[k] on a defaultdict: a missing key is inserted
DictTouch(d, k) == DictSet(d, k, DictGet(d, k))

---------------------------------------------------------------------------
(* PluginDependencyGraph.add_plugin                                        *)

\* the edge recorded the wrong way round: _graph[plugin].append(dep)
RECURSIVE add_plugin_loop_reversed(_, _, _, _)
add_plugin_loop_reversed(g, P, deps, plugin) ==
    IF deps = <<>> THEN [graph |-> g, plugins |-> P \cup {plugin}]
    ELSE LET dep == Head(deps)
         IN add_plugin_loop_reversed(DictSet(g, plugin, Append(DictGet(g, plugin), dep)),
                                     P \cup {dep}, Tail(deps), plugin)

\* the dependency left out of the known plugins: no _plugins.add(dep)
RECURSIVE add_plugin_loop_forgets_dep(_, _, _, _)
add_plugin_loop_forgets_dep(g, P, deps, plugin) ==
    IF deps = <<>> THEN [graph |-> g, plugins |-> P \cup {plugin}]
    ELSE LET dep == Head(deps)
         IN add_plugin_loop_forgets_dep(DictSet(g, dep, Append(DictGet(g, dep), plugin)),
                                        P, Tail(deps), plugin)

\* for dep in plugin.dependencies: _graph[dep].append(plugin); _plugins.add(dep)
\* and then _plugins.add(plugin)
RECURSIVE add_plugin_loop(_, _, _, _)
add_plugin_loop(g, P, deps, plugin) ==
    IF deps = <<>> THEN [graph |-> g, plugins |-> P \cup {plugin}]
    ELSE LET dep == Head(deps)
         IN add_plugin_loop(DictSet(g, dep, Append(DictGet(g, dep), plugin)),
                            P \cup {dep}, Tail(deps), plugin)

AddPlugin(g, P, plugin) == add_plugin_loop(g, P, dependencies[plugin], plugin)

---------------------------------------------------------------------------
(* PluginDependencyGraph.get_build_order                                   *)

\* the entries of the adjacency lists: <<source, position, dependent>>
Entries(g) == UNION {{<<k, i, g[k][i]>> : i \in DOMAIN g[k]} : k \in DOMAIN g}

\* the lists' lengths counted instead of their entries: the out-degree
InDegree_outgoing(g, P) ==
    [node \in P |-> Len(DictGet(g, node))]

\* in_degree = {node: 0 ...}; then += 1 for every entry of every list
InDegree(g, P) ==
    [node \in P |-> Cardinality({e \in Entries(g) : e[3] = node})]

\* the queue seeded with every known plugin, whatever its in-degree
InitialQueue_unfiltered(g, P) == SetIter(P)

\* deque([node for node in self._plugins if in_degree[node] == 0])
InitialQueue(g, P) ==
    LET in_degree == InDegree(g, P)
    IN SelectSeq(SetIter(P), LAMBDA node : in_degree[node] = 0)

\* for neighbor in self._graph[current]: decrement, enqueue at zero
RECURSIVE ReduceNeighbors(_, _, _)
ReduceNeighbors(neighbors, in_degree, queue) ==
    IF neighbors = <<>> THEN [in_degree |-> in_degree, queue |-> queue]
    ELSE LET neighbor == Head(neighbors)
             deg == [in_degree EXCEPT ![neighbor] = @ - 1]
         IN ReduceNeighbors(Tail(neighbors), deg,
                            IF deg[neighbor] = 0 THEN Append(queue, neighbor)
                            ELSE queue)

\* the plugin taken from the back of the queue: pop() for popleft()
LoopStep_stack(st) ==
    LET current == st.queue[Len(st.queue)]
        r == ReduceNeighbors(DictGet(st.graph, current), st.in_degree,
                             SubSeq(st.queue, 1, Len(st.queue) - 1))
    IN [graph |-> DictTouch(st.graph, current),
        in_degree |-> r.in_degree,
        queue |-> r.queue,
        build_order |-> Append(st.build_order, current)]

\* one iteration of `while queue:`
LoopStep(st) ==
    LET current == Head(st.queue)
        r == ReduceNeighbors(DictGet(st.graph, current), st.in_degree, Tail(st.queue))
    IN [graph |-> DictTouch(st.graph, current),
        in_degree |-> r.in_degree,
        queue |-> r.queue,
        build_order |-> Append(st.build_order, current)]

RECURSIVE RunLoop(_)
RunLoop(st) == IF st.queue = <<>> THEN st ELSE RunLoop(LoopStep(st))

LoopStart(g, P) ==
    [graph |-> g, in_degree |-> InDegree(g, P),
     queue |-> InitialQueue(g, P), build_order |-> <<>>]

NoOutcome == [kind |-> "none", build_order |-> <<>>]

\* the length check left out: the partial order is returned
GetBuildOrder_unchecked(g, P) ==
    LET st == RunLoop(LoopStart(g, P))
    IN [graph |-> st.graph,
        outcome |-> [kind |-> "return", build_order |-> st.build_order]]

\* the edges of the plugins taken from the queue removed from _graph
GetBuildOrder_consuming(g, P) ==
    LET st == RunLoop(LoopStart(g, P))
    IN [graph |-> [k \in DOMAIN st.graph |->
                      IF k \in SeqToSet(st.build_order) THEN <<>> ELSE st.graph[k]],
        outcome |-> IF Len(st.build_order) # Cardinality(P)
                    THEN [kind |-> "raise", build_order |-> <<>>]
                    ELSE [kind |-> "return", build_order |-> st.build_order]]

\* the loop run from the state st0, then the length check: the returned
\* list, or ValueError("Cycle detected ...")
GetBuildOrderFrom(st0, P) ==
    LET st == RunLoop(st0)
    IN [graph |-> st.graph,
        outcome |-> IF Len(st.build_order) # Cardinality(P)
                    THEN [kind |-> "raise", build_order |-> <<>>]
                    ELSE [kind |-> "return", build_order |-> st.build_order]]

\* the result of a call
GetBuildOrder(g, P) == GetBuildOrderFrom(LoopStart(g, P), P)

---------------------------------------------------------------------------
(* The actions.                                                            *)

Registering == status = "running" /\ started = <<>>

add_plugin(plugin) ==
    /\ Registering
    /\ Len(hist) < MaxAdds
    /\ LET r == AddPlugin(_graph, _plugins, plugin)
       IN /\ _graph' = r.graph
          /\ _plugins' = r.plugins
    /\ hist' = Append(hist, plugin)
    /\ outcome' = NoOutcome
    /\ UNCHANGED <<dependencies, hashOrder, started, status, root, written, runVars>>

\* every plugin built as it is taken from the queue, before the length check
get_build_order_building ==
    /\ Registering
    /\ LET r == GetBuildOrder(_graph, _plugins)
           st == RunLoop(LoopStart(_graph, _plugins))
       IN /\ _graph' = r.graph
          /\ outcome' = r.outcome
          /\ started' = st.build_order
    /\ UNCHANGED <<dependencies, hashOrder, _plugins, hist, status, root, written, runVars>>

get_build_order ==
    /\ Registering
    /\ LET r == GetBuildOrder(_graph, _plugins)
       IN /\ _graph' = r.graph
          /\ outcome' = r.outcome
    /\ UNCHANGED <<dependencies, hashOrder, _plugins, hist, started, status, root, written, runVars>>

---------------------------------------------------------------------------
(* The builds.  The caller of the graph is not part of plugins.py; the     *)
(* spec's overview describes it: it registers the plugins, asks for the    *)
(* build order and invokes each plugin's build in that order, one at a     *)
(* time, and an exception out of get_build_order ends the run.             *)

\* the plugin whose build the orchestrator invokes next, if any
CanInvoke(plugin) ==
    /\ status = "running"
    /\ outcome.kind = "return"
    /\ Len(started) < Len(outcome.build_order)
    /\ outcome.build_order[Len(started) + 1] = plugin

Invoke(plugin) ==
    /\ CanInvoke(plugin)
    /\ started' = Append(started, plugin)
    /\ UNCHANGED <<dependencies, hashOrder, _graph, _plugins, hist, outcome>>
    /\ UNCHANGED <<pc, cfg, git, runs, before, succeeded, cliVars, loopVars>>

Layouts == {"src", "flat"}

\* the project names of the model, and how each is spelled
ProjectNames == {"demo", "my-app"}

Spelling(name) ==
    CASE name = "demo" -> <<"d", "e", "m", "o">>
      [] name = "my-app" -> <<"m", "y", "-", "a", "p", "p">>
      [] name = "typed" -> <<"t", "y", "p", "e", "d">>
      [] name = "other" -> <<"o", "t", "h", "e", "r">>
      [] name = "saved" -> <<"s", "a", "v", "e", "d">>

\* str.replace("-", "_")
Replace(str) == [i \in DOMAIN str |-> IF str[i] = "-" THEN "_" ELSE str[i]]

\* the package directory, relative to the project root, as path components:
\* project_root / folder when the layout is "flat", else
\* project_root / "src" / folder
PackagePath(folder, layout) ==
    IF layout = "flat" THEN <<folder>> ELSE <<"src", folder>>

\* what a process records of the package directory it has created
PackageDir(name, layout, folder) ==
    [project_name |-> name, layout |-> layout, path |-> PackagePath(folder, layout)]

\* the populated project root accepted: no check before the mkdir
Core_build_unchecked(name, layout) ==
    IF root = "file"
    THEN status' = "raised" /\ UNCHANGED <<root, written, stdout, src_folder, pyproject_toml>>
    ELSE /\ root' = "nonempty_dir"
         /\ written' = written \cup
                (IF layout = "flat" THEN {"src_folder"} ELSE {"src", "src_folder"})
         /\ src_folder' = PackageDir(name, layout, Replace(Spelling(name)))
         /\ UNCHANGED <<status, stdout, pyproject_toml>>

\* Core.build: print and exit(1) on a populated project root, else
\* mkdir(parents=True) of the package folder, named project_name with "-"
\* replaced by "_" (the mkdir raises when project_root is a file)
Core_build(name, layout) ==
    IF root = "nonempty_dir"
    THEN /\ stdout' = Append(stdout, "not_empty")
         /\ status' = "exit 1"
         /\ UNCHANGED <<root, written, src_folder, pyproject_toml>>
    ELSE IF root = "file"
    THEN status' = "raised" /\ UNCHANGED <<root, written, stdout, src_folder, pyproject_toml>>
    ELSE /\ root' = "nonempty_dir"
         /\ written' = written \cup
                (IF layout = "flat" THEN {"src_folder"} ELSE {"src", "src_folder"})
         /\ src_folder' = PackageDir(name, layout, Replace(Spelling(name)))
         /\ UNCHANGED <<status, stdout, pyproject_toml>>

\* open(project_root / name, "w"): raises unless project_root is a directory
WriteFile(name) ==
    /\ IF root \in {"absent", "file"}
       THEN status' = "raised" /\ UNCHANGED <<root, written>>
       ELSE /\ root' = "nonempty_dir"
            /\ written' = written \cup {name}
            /\ UNCHANGED status
    /\ UNCHANGED <<stdout, src_folder>>

ReadMe_build == WriteFile("README.md") /\ UNCHANGED pyproject_toml

\* open(pyproject_file, "w") and f.write(""): a file without any table
PyProjectToml_build ==
    /\ WriteFile("pyproject.toml")
    /\ pyproject_toml' = IF root \in {"absent", "file"} THEN pyproject_toml ELSE {}

\* the build of a user-defined plugin: Plugin.build raises NotImplementedError
\* unless the subclass overrides it; what an override does is not modelled
Plugin_build(overridden) ==
    /\ status' = IF overridden THEN status ELSE "raised"
    /\ UNCHANGED <<root, written, stdout, src_folder, pyproject_toml>>

BuildCore ==
    \E name \in ProjectNames, layout \in Layouts :
        Invoke("Core") /\ Core_build(name, layout)

BuildReadMe == Invoke("ReadMe") /\ ReadMe_build

BuildPyProjectToml == Invoke("PyProjectToml") /\ PyProjectToml_build

BuildUserPlugin ==
    \E plugin \in UserPlugins, overridden \in BOOLEAN :
        Invoke(plugin) /\ Plugin_build(overridden)

---------------------------------------------------------------------------
(* config["project_config"]: the fields the builders read.  The lists      *)
(* static_code_checkers and formatters are only tested for membership, so  *)
(* they are kept as sets; "None" stands for Python's None.                 *)

StaticCodeCheckers == {"flake8", "mypy", "pyright", "pylint"}

Formatters == {"ruff", "isort", "black"}

\* the values of the choices of the minimum python version question
MinPyVersions == {"3.9", "3.10", "3.8", "3.7", "3.6"}

\* the keys of supported_python_versions in templates.build_gh_action_ci
SupportedPythonVersions == {"3.10", "3.11", "3.12", "3.13"}

ProjectConfigs ==
    [min_py_version : MinPyVersions,
     layout : Layouts,
     docs : {"None", "mkdocs", "sphinx"},
     pre_commit : BOOLEAN,
     cloud_code_base : {"None", "github"},
     code_editor : {"None", "vscode"},
     configuration_preference : {"stand_alone", "pyproject_toml"},
     static_code_checkers : SUBSET StaticCodeCheckers,
     formatters : SUBSET Formatters]

\* the values the questions of prompt_for_project_config start from
PromptDefaults ==
    [min_py_version |-> "3.10",
     layout |-> "src",
     docs |-> "mkdocs",
     pre_commit |-> TRUE,
     cloud_code_base |-> "github",
     code_editor |-> "vscode",
     configuration_preference |-> "pyproject_toml",
     static_code_checkers |-> StaticCodeCheckers,
     formatters |-> {"ruff", "isort"}]

\* the configurations the runs are explored with: every answer to the
\* questions that decide which steps run and whether one fails, and for the
\* two check-box questions everything selected or nothing; of the python
\* versions, one that build_gh_action_ci knows and one that it does not
RunConfigs ==
    {c \in ProjectConfigs :
        /\ c.min_py_version \in {"3.10", "3.9"}
        /\ c.static_code_checkers \in {{}, StaticCodeCheckers}
        /\ c.formatters \in {{}, PromptDefaults.formatters}}

\* config["project_config"] of a build_basic_project call: the fields above
\* with the project name and the build backend
BuildConfig(c, name, build_backend) ==
    c @@ [project_name |-> name, build_backend |-> build_backend]

\* A ProjectConfig dict as cli.py handles it: the fields the questions set,
\* the two check-box fields as lists, and the fields no question sets
\* (pkg_license, configuration_preference).  This one holds the default
\* value of every question
DefaultProjectConfig ==
    [project_name |-> "",
     pkg_license |-> "MIT",
     min_py_version |-> "3.10",
     layout |-> "src",
     build_backend |-> "Hatchling",
     static_code_checkers |-> <<"flake8", "mypy", "pyright", "pylint">>,
     formatters |-> <<"ruff", "isort">>,
     spell_checker |-> "cspell",
     docs |-> "mkdocs",
     code_editor |-> "vscode",
     pre_commit |-> TRUE,
     cloud_code_base |-> "github",
     configuration_preference |-> "pyproject_toml"]

\* DEFAULT_PROJECT_CONFIG as the import of scaffoldpy.models leaves it.  The
\* module is not among the sources and nothing states its contents: it may
\* hold the default value of every question, or differ from the questions'
\* defaults in some fields
DefaultProjectConfigs ==
    {DefaultProjectConfig,
     [DefaultProjectConfig EXCEPT !.layout = "flat", !.docs = "None",
                                  !.formatters = <<"isort", "black">>,
                                  !.pkg_license = "Apache-2.0"]}

\* config["project_config"] as builders.py reads it: of the two lists it
\* tests membership only
AsRead(config) ==
    [config EXCEPT !.static_code_checkers = {@[i] : i \in DOMAIN @},
                   !.formatters = {@[i] : i \in DOMAIN @}]

\* Python's None where a dict is expected, and a local not yet assigned
None == [none |-> TRUE]

Unset == [unset |-> TRUE]

\* no get_build_order call is being followed
NoCall == [pc |-> "idle", in_degree |-> <<>>, queue |-> <<>>, build_order |-> <<>>]

NoWork == [queued |-> <<>>, decrements |-> 0]

NoLoop == call = NoCall /\ work = NoWork

\* main is not running: build_basic_project or the plugins are used directly
NoCli ==
    /\ args = [project_name |-> "None", skip_config |-> FALSE]
    /\ git_user_config = None
    /\ config_file = [kind |-> "absent"]
    /\ asked = <<>>
    /\ user_config = Unset
    /\ project_config = Unset
    /\ update_needed = FALSE
    /\ DEFAULT_PROJECT_CONFIG = DefaultProjectConfig
    /\ built = <<>>
    /\ dumps = 0

\* no process of build_basic_project: the plugin graph is used as a library
NoRun ==
    /\ NoCli
    /\ pc = "none"
    /\ cfg = PromptDefaults
    /\ stdout = <<>>
    /\ git = <<>>
    /\ runs = 1
    /\ before = [root |-> root, written |-> written]
    /\ succeeded = FALSE
    /\ NoLoop
    /\ src_folder = Unset
    /\ pyproject_toml = {}

---------------------------------------------------------------------------
Init ==
    /\ dependencies \in {ShippedDependencies} \cup UserDependencies
    /\ hashOrder \in Orderings(DOMAIN dependencies)
    /\ _graph = EmptyDict
    /\ _plugins = {}
    /\ hist = <<>>
    /\ outcome = NoOutcome
    /\ started = <<>>
    /\ status = "running"
    /\ root \in IF dependencies = ShippedDependencies
                THEN {"absent", "empty_dir", "nonempty_dir", "file"}
                ELSE {"absent"}
    /\ written = {}
    /\ NoRun

Next ==
    \/ \E plugin \in Plugins : add_plugin(plugin)
    \/ get_build_order
    \/ BuildCore
    \/ BuildReadMe
    \/ BuildPyProjectToml
    \/ BuildUserPlugin

Spec == Init /\ [][Next]_vars

---------------------------------------------------------------------------
(* Notions the properties are stated in.                                   *)

\* the recorded edges d -> p, as pairs
EdgePairs(g) == {<<e[1], e[3]>> : e \in Entries(g)}

\* the plugins reachable from the set S along the edges E (S included)
RECURSIVE Closure(_, _)
Closure(E, S) ==
    LET T == S \cup {e[2] : e \in {x \in E : x[1] \in S}}
    IN IF T = S THEN S ELSE Closure(E, T)

\* some plugin reaches itself along one or more recorded edges
HasCycle(g) ==
    LET E == EdgePairs(g)
    IN \E e \in E : e[1] \in Closure(E, {e[2]})

\* the position of plugin p in the list s (0 when absent)
Pos(s, p) == IF \E i \in DOMAIN s : s[i] = p
             THEN CHOOSE i \in DOMAIN s : s[i] = p
             ELSE 0

\* s holds every element of S exactly once
IsOrderingOf(s, S) == Len(s) = Cardinality(S) /\ SeqToSet(s) = S

\* s is a valid build order of the recorded graph
IsValidOrder(s, g, P) ==
    /\ IsOrderingOf(s, P)
    /\ \A e \in EdgePairs(g) : Pos(s, e[1]) < Pos(s, e[2])

\* the number of times x occurs in the list s
Count(s, x) == Cardinality({i \in DOMAIN s : s[i] = x})

\* the plugins passed to add_plugin so far
Registered == SeqToSet(hist)

Called == outcome.kind # "none"

---------------------------------------------------------------------------
(* C1: on an acyclic graph get_build_order returns, and the list holds     *)
(* every known plugin exactly once with every recorded edge d -> p         *)
(* pointing forward (d before p); a lone plugin without dependencies       *)
(* gives the one-element list.                                             *)
C1_AcyclicGivesTopologicalOrder ==
    (Called /\ ~HasCycle(_graph)) =>
        /\ outcome.kind = "return"
        /\ IsValidOrder(outcome.build_order, _graph, _plugins)
        /\ \A p \in Plugins :
              (Registered = {p} /\ dependencies[p] = <<>>) =>
                  outcome.build_order = <<p>>

C1_Witness ==
    /\ outcome.kind = "return"
    /\ Len(outcome.build_order) = 3
    /\ Cardinality(EdgePairs(_graph)) >= 2

(* C2: on a graph whose recorded edges hold a cycle get_build_order raises *)
(* and returns no list.                                                    *)
C2_CycleRaises ==
    (Called /\ HasCycle(_graph)) =>
        outcome.kind = "raise" /\ outcome.build_order = <<>>

\* a cycle downstream of an acyclic part: some plugin is in the initial queue
C2_Witness ==
    /\ outcome.kind = "raise"
    /\ HasCycle(_graph)
    /\ InitialQueue(_graph, _plugins) # <<>>
    /\ Cardinality(_plugins) = 3

---------------------------------------------------------------------------
(* A second graph that receives a given sequence of add_plugin calls and   *)
(* is then asked for its build order once.                                 *)

RECURSIVE Replay(_, _, _)
Replay(g, P, calls) ==
    IF calls = <<>> THEN [graph |-> g, plugins |-> P]
    ELSE LET r == AddPlugin(g, P, Head(calls))
         IN Replay(r.graph, r.plugins, Tail(calls))

FreshOutcome(calls) ==
    LET r == Replay(EmptyDict, {}, calls)
    IN GetBuildOrder(r.graph, r.plugins).outcome

\* the calls without the repeated registrations: each plugin's first call only
RECURSIVE FirstRegistrations(_)
FirstRegistrations(calls) ==
    IF calls = <<>> THEN <<>>
    ELSE LET front == SubSeq(calls, 1, Len(calls) - 1)
             last == calls[Len(calls)]
         IN IF last \in SeqToSet(front) THEN FirstRegistrations(front)
            ELSE Append(FirstRegistrations(front), last)

(* C3: registering a plugin again does not change the outcome of           *)
(* get_build_order: it is the outcome of a graph on which every plugin was *)
(* registered once.                                                        *)
C3_ReRegistrationKeepsOutcome ==
    Called => outcome = FreshOutcome(FirstRegistrations(hist))

\* The tool is run again: the plugin classes of the new process lie at
\* other addresses, so its sets iterate them in an order of their own; a
\* new graph receives the same add_plugin calls and is asked for its build
\* order
NewProcess ==
    /\ Registering
    /\ Called
    /\ \E order \in Orderings(Plugins) :
          LET r == Replay(EmptyDict, {}, hist)
              st0 == LoopStart(r.graph, r.plugins)
              \* the queue of the new process: the same plugins, as its
              \* own set iterates them
              queue == SelectSeq(order, LAMBDA x : x \in SeqToSet(st0.queue))
              res == GetBuildOrderFrom([st0 EXCEPT !.queue = queue], r.plugins)
          IN /\ hashOrder' = order
             /\ _plugins' = r.plugins
             /\ _graph' = res.graph
             /\ outcome' = res.outcome
    /\ UNCHANGED <<dependencies, hist, started, status, root, written, runVars>>

TwoProcessNext == Next \/ NewProcess

TwoProcessSpec == Init /\ [][TwoProcessNext]_vars

(* C4: the outcome of get_build_order is determined by the sequence of     *)
(* add_plugin calls: a graph of another run of the tool that is given the  *)
(* same calls returns the same list, plugins without a dependency relation *)
(* in the same relative order.                                             *)
C4_SameRegistrationsSameOrder ==
    [][NewProcess => outcome' = outcome]_vars

(* C5: add_plugin(plugin) records the edge d -> plugin for every d of      *)
(* plugin.dependencies, makes d and plugin known, and cannot fail: it is   *)
(* possible whatever cycle the call closes.                                *)
C5_AddPluginRecordsEdges ==
    /\ _plugins = Registered \cup UNION {SeqToSet(dependencies[p]) : p \in Registered}
    /\ \A d, p \in Plugins :
          Count(DictGet(_graph, d), p) = Count(hist, p) * Count(dependencies[p], d)
    /\ (Registering /\ Len(hist) < MaxAdds) =>
          \A p \in Plugins : ENABLED add_plugin(p)

\* a cycle has been registered and no call has reported it yet
C5_Witness ==
    /\ HasCycle(_graph)
    /\ ~Called
    /\ Cardinality(Registered) >= 2

(* C6: when a plugin's build starts, the build of every plugin of its      *)
(* dependencies list has completed, for every plugin of the order; and     *)
(* ReadMe.build and PyProjectToml.build find the project root in place.    *)
C6_DependenciesBuiltFirst ==
    /\ \A i \in DOMAIN started :
          \A d \in SeqToSet(dependencies[started[i]]) :
              \E j \in 1..(i - 1) : started[j] = d
    /\ ~(/\ status = "raised"
         /\ started # <<>>
         /\ started[Len(started)] \in {"ReadMe", "PyProjectToml"})

(* C7: with the shipped plugins, whichever of them were registered and in  *)
(* whatever order, the build order starts with Core and holds Core and     *)
(* the registered plugins, each once.                                      *)
C7_CoreFirst ==
    (dependencies = ShippedDependencies /\ Called /\ hist # <<>>) =>
        /\ outcome.kind = "return"
        /\ outcome.build_order[1] = "Core"
        /\ IsOrderingOf(outcome.build_order, Registered \cup {"Core"})

\* Core known only as a dependency
C7_Witness ==
    /\ dependencies = ShippedDependencies
    /\ outcome.kind = "return"
    /\ Registered = {"ReadMe", "PyProjectToml"}
    /\ Len(outcome.build_order) = 3

\* Scenario C: A (no dependencies), B (depends on A), C (depends on B)
ChainDependencies ==
    [p \in UserPlugins |->
        CASE p = "A" -> <<>>
          [] p = "B" -> <<"A">>
          [] p = "C" -> <<"B">>]

(* C8: for the chain A, B, C, registered once each in any of the six       *)
(* orders, get_build_order returns exactly [A, B, C].                      *)
C8_ChainOrder ==
    (dependencies = ChainDependencies /\ Called /\ hist \in Orderings(UserPlugins)) =>
        outcome = [kind |-> "return", build_order |-> <<"A", "B", "C">>]

\* registered in reverse, with the set iterating in reverse too
C8_Witness ==
    /\ dependencies = ChainDependencies
    /\ hist = <<"C", "B", "A">>
    /\ hashOrder = <<"C", "B", "A">>
    /\ outcome.kind = "return"

(* C9: a known plugin with an empty dependencies list has in-degree zero   *)
(* and is in the initial work queue; and when the graph has a valid build  *)
(* order at all, it has one that starts with this plugin.                  *)
C9_NoDependenciesInDegreeZero ==
    \A p \in _plugins :
        dependencies[p] = <<>> =>
            /\ InDegree(_graph, _plugins)[p] = 0
            /\ p \in SeqToSet(InitialQueue(_graph, _plugins))
            /\ ~HasCycle(_graph) =>
                  \E s \in Orderings(_plugins) :
                      IsValidOrder(s, _graph, _plugins) /\ s[1] = p

\* registered twice, beside an edge between two other plugins, and not the
\* first of the order the call returned
C9_Witness ==
    \E p \in _plugins :
        /\ dependencies[p] = <<>>
        /\ Count(hist, p) = 2
        /\ EdgePairs(_graph) # {}
        /\ outcome.kind = "return"
        /\ outcome.build_order[1] # p

(* C10: a get_build_order that raises the cycle error has built nothing    *)
(* and written nothing, and no build happens in a run whose graph holds a  *)
(* cycle.                                                                  *)
C10_CycleErrorBuildsNothing ==
    (outcome.kind = "raise" \/ HasCycle(_graph)) =>
        /\ started = <<>>
        /\ written = {}
        /\ status = "running"
        /\ \A p \in Plugins : ~CanInvoke(p)

\* the error is raised with plugins outside the cycle in the partial order
C10_Witness ==
    /\ outcome.kind = "raise"
    /\ InitialQueue(_graph, _plugins) # <<>>

---------------------------------------------------------------------------
(* build_basic_project (src/src/scaffoldpy/builders.py), one action per    *)
(* step of the function: the process is at position pc, and an exception   *)
(* or sys.exit ends it there.  The paths are relative to the project root; *)
(* "src_folder" is the package directory, as in Core.build.                *)

MaxRuns == 2

graphVars == <<dependencies, hashOrder, _graph, _plugins, hist, outcome, started>>

\* what stays as it is while one process runs
runFrame == <<cfg, runs, before, succeeded, cliVars, loopVars>>

At(p) == pc = p /\ status = "running"

\* open(..., "w") and mkdir under the project root the process has created
Create(paths) == root' = "nonempty_dir" /\ written' = written \cup paths

---------------------------------------------------------------------------
(* pyproject.toml.  A document is the set of its tables, each a path of     *)
(* keys; the file holds the section headers toml.dump writes.               *)

\* the tables that hold key/value pairs of their own
WithValues ==
    {<<"build-system">>, <<"project">>, <<"project", "authors">>,
     <<"project", "maintainers">>, <<"project", "urls">>, <<"dependency-groups">>,
     <<"tool", "hatch", "build", "targets", "sdist">>,
     <<"tool", "hatch", "build", "targets", "wheel">>,
     <<"tool", "mypy">>, <<"tool", "pylint">>, <<"tool", "pytest">>,
     <<"tool", "ruff">>, <<"tool", "ruff", "lint">>, <<"tool", "ruff", "format">>,
     <<"tool", "isort">>}

\* table u lies under table t
Under(u, t) == Len(u) > Len(t) /\ SubSeq(u, 1, Len(t)) = t

\* toml.dump: a table gets a header when it has values of its own, or when
\* it has neither values nor sub-tables
toml_dump(doc) ==
    {t \in doc : t \in WithValues \/ ~\E u \in doc : Under(u, t)}

\* toml.load: every header's table, with the tables above it
toml_load(headers) ==
    UNION {{SubSeq(t, 1, k) : k \in 1..Len(t)} : t \in headers}

KnownBackends == {"Hatchling", "Setuptools", "Poetry-core", "PDM-backend", "Flit-core", "None"}

\* the tables build_toml returns: build-system, project, dependency-groups
\* and tool, with tool.hatch for Hatchling
build_toml(config) ==
    {<<"build-system">>, <<"project">>, <<"project", "authors">>,
     <<"project", "maintainers">>, <<"project", "urls">>,
     <<"project", "optional-dependencies">>, <<"dependency-groups">>, <<"tool">>}
    \cup IF config.build_backend = "Hatchling"
         THEN {<<"tool", "hatch">>, <<"tool", "hatch", "build">>,
               <<"tool", "hatch", "build", "targets">>,
               <<"tool", "hatch", "build", "targets", "sdist">>,
               <<"tool", "hatch", "build", "targets", "wheel">>}
         ELSE {}

\* the value assigned to project_toml["tool"][tool]
ToolTables(tool) ==
    IF tool = "ruff"
    THEN {<<"tool", "ruff">>, <<"tool", "ruff", "lint">>, <<"tool", "ruff", "format">>}
    ELSE {<<"tool", tool>>}

\* project_toml["tool"][tool] = {...}
SetTool(doc, tool) ==
    {t \in doc : t # <<"tool", tool>> /\ ~Under(t, <<"tool", tool>>)} \cup ToolTables(tool)

\* the assignments of a step: for each tool of the list that is selected,
\* when the configuration preference is not "stand_alone"
RECURSIVE SetTools(_, _, _)
SetTools(doc, selected, tools) ==
    IF tools = <<>> THEN doc
    ELSE SetTools(IF Head(tools) \in selected
                     /\ cfg.configuration_preference # "stand_alone"
                  THEN SetTool(doc, Head(tools)) ELSE doc,
                  selected, Tail(tools))

\* print("Building your project..."), then the non-empty check without the
\* sys.exit: every project root goes on to build_toml
build_basic_project_unchecked ==
    /\ At("start")
    /\ stdout' = Append(stdout, "building")
    /\ pc' = "mkdir"
    /\ UNCHANGED <<graphVars, status, root, written, git, runFrame, src_folder, pyproject_toml>>

\* print("Building your project..."), then: project_root exists, is a
\* directory and has an entry -> print the diagnostic and sys.exit(1)
build_basic_project_check ==
    /\ At("start")
    /\ IF root = "nonempty_dir"
       THEN /\ stdout' = stdout \o <<"building", "not_empty">>
            /\ status' = "exit 1"
            /\ UNCHANGED pc
       ELSE /\ stdout' = Append(stdout, "building")
            /\ pc' = "mkdir"
            /\ UNCHANGED status
    /\ UNCHANGED <<graphVars, root, written, git, runFrame, src_folder, pyproject_toml>>

\* build_toml(config) (NotImplementedError for a build backend it does not
\* know); project_root.mkdir() (FileExistsError when the path exists, as an
\* empty directory or as a file); toml.dump to pyproject.toml
build_basic_project_mkdir ==
    /\ At("mkdir")
    /\ IF cfg.build_backend \in KnownBackends /\ root = "absent"
       THEN /\ Create({"pyproject.toml"})
            /\ pyproject_toml' = toml_dump(build_toml(cfg))
            /\ pc' = "readme"
            /\ UNCHANGED status
       ELSE status' = "raised" /\ UNCHANGED <<pc, root, written, pyproject_toml>>
    /\ UNCHANGED <<graphVars, stdout, git, runFrame, src_folder>>

build_basic_project_readme ==
    /\ At("readme")
    /\ Create({"README.md"})
    /\ pc' = "src_folder"
    /\ UNCHANGED <<graphVars, status, stdout, git, runFrame, src_folder, pyproject_toml>>

\* src_folder.mkdir(parents=True) and its __init__.py; the folder is named
\* project_name as it is
build_basic_project_src_folder ==
    /\ At("src_folder")
    /\ Create((IF cfg.layout = "flat" THEN {} ELSE {"src"})
              \cup {"src_folder", "src_folder/__init__.py"})
    /\ src_folder' = PackageDir(cfg.project_name, cfg.layout, Spelling(cfg.project_name))
    /\ pc' = "build_tests"
    /\ UNCHANGED <<graphVars, status, stdout, git, runFrame, pyproject_toml>>

\* tests/__init__.py; then toml.load, pytest.ini or tool.pytest, toml.dump
build_tests ==
    /\ At("build_tests")
    /\ Create({"tests", "tests/__init__.py"}
              \cup IF cfg.configuration_preference = "stand_alone"
                   THEN {"pytest.ini"} ELSE {})
    /\ LET project_toml == toml_load(pyproject_toml)
       IN pyproject_toml' = toml_dump(SetTools(project_toml, {"pytest"}, <<"pytest">>))
    /\ pc' = "build_pre_commit_config"
    /\ UNCHANGED <<graphVars, status, stdout, git, runFrame, src_folder>>

build_pre_commit_config ==
    /\ At("build_pre_commit_config")
    /\ Create(IF cfg.pre_commit THEN {".pre-commit-config.yaml"} ELSE {})
    /\ pc' = "build_static_checkers"
    /\ UNCHANGED <<graphVars, status, stdout, git, runFrame, src_folder, pyproject_toml>>

\* the stand-alone file written for every selected tool, whatever the
\* configuration preference
StandAlone_always(selected, tool, file) ==
    IF tool \in selected THEN {file} ELSE {}

\* the stand-alone file of a tool, written when the tool is selected and
\* the configuration preference is "stand_alone"
StandAlone(selected, tool, file) ==
    IF tool \in selected /\ cfg.configuration_preference = "stand_alone"
    THEN {file} ELSE {}

build_static_checkers ==
    /\ At("build_static_checkers")
    /\ Create((IF "flake8" \in cfg.static_code_checkers THEN {".flake8"} ELSE {})
              \cup StandAlone(cfg.static_code_checkers, "mypy", ".mypy.ini")
              \cup StandAlone(cfg.static_code_checkers, "pyright", "pyrightconfig.json")
              \cup StandAlone(cfg.static_code_checkers, "pylint", ".pylintrc"))
    /\ LET project_toml == toml_load(pyproject_toml)
       IN pyproject_toml' = toml_dump(SetTools(project_toml, cfg.static_code_checkers,
                                               <<"mypy", "pyright", "pylint">>))
    /\ pc' = "build_formatter"
    /\ UNCHANGED <<graphVars, status, stdout, git, runFrame, src_folder>>

\* toml.load skipped: the step starts from a document with an empty tool table
build_formatter_fresh ==
    /\ At("build_formatter")
    /\ Create(StandAlone(cfg.formatters, "ruff", "ruff.toml")
              \cup StandAlone(cfg.formatters, "isort", ".isort.cfg"))
    /\ LET project_toml == {<<"tool">>}
       IN pyproject_toml' = toml_dump(SetTools(project_toml, cfg.formatters,
                                               <<"ruff", "isort">>))
    /\ pc' = "build_editor_config"
    /\ UNCHANGED <<graphVars, status, stdout, git, runFrame, src_folder>>

build_formatter ==
    /\ At("build_formatter")
    /\ Create(StandAlone(cfg.formatters, "ruff", "ruff.toml")
              \cup StandAlone(cfg.formatters, "isort", ".isort.cfg"))
    /\ LET project_toml == toml_load(pyproject_toml)
       IN pyproject_toml' = toml_dump(SetTools(project_toml, cfg.formatters,
                                               <<"ruff", "isort">>))
    /\ pc' = "build_editor_config"
    /\ UNCHANGED <<graphVars, status, stdout, git, runFrame, src_folder>>

build_editor_config ==
    /\ At("build_editor_config")
    /\ Create(IF cfg.code_editor = "vscode" THEN {"project.code-workspace"} ELSE {})
    /\ pc' = "build_docs"
    /\ UNCHANGED <<graphVars, status, stdout, git, runFrame, src_folder, pyproject_toml>>

\* an unsupported documentation generator passed over in silence
build_docs_unsupported_skipped ==
    /\ At("build_docs")
    /\ Create(IF cfg.docs = "mkdocs" THEN {"mkdocs.yml", "docs", "docs/index.md"} ELSE {})
    /\ pc' = "build_cloud_code_base"
    /\ UNCHANGED <<graphVars, status, stdout, git, runFrame, src_folder, pyproject_toml>>

\* None: nothing; "mkdocs": mkdocs.yml and docs/index.md; anything else:
\* NotImplementedError
build_docs ==
    /\ At("build_docs")
    /\ IF cfg.docs = "None"
       THEN pc' = "build_cloud_code_base" /\ UNCHANGED <<status, root, written>>
       ELSE IF cfg.docs = "mkdocs"
       THEN /\ Create({"mkdocs.yml", "docs", "docs/index.md"})
            /\ pc' = "build_cloud_code_base"
            /\ UNCHANGED status
       ELSE status' = "raised" /\ UNCHANGED <<pc, root, written>>
    /\ UNCHANGED <<graphVars, stdout, git, runFrame, src_folder, pyproject_toml>>

\* None: nothing; "github": .github/workflows with ci.yml and release.yml.
\* ci.yml is opened before build_gh_action_ci looks min_py_version up in its
\* table: a version that is not a key raises KeyError with ci.yml created
build_cloud_code_base ==
    /\ At("build_cloud_code_base")
    /\ IF cfg.cloud_code_base = "None"
       THEN pc' = "build_vcs" /\ UNCHANGED <<status, root, written>>
       ELSE IF cfg.min_py_version \in SupportedPythonVersions
       THEN /\ Create({".github", ".github/workflows", ".github/workflows/ci.yml",
                       ".github/workflows/release.yml"})
            /\ pc' = "build_vcs"
            /\ UNCHANGED status
       ELSE /\ Create({".github", ".github/workflows", ".github/workflows/ci.yml"})
            /\ status' = "raised"
            /\ UNCHANGED pc
    /\ UNCHANGED <<graphVars, stdout, git, runFrame, src_folder, pyproject_toml>>

\* build_vcs, first statement: .gitignore
build_vcs_gitignore ==
    /\ At("build_vcs")
    /\ Create({".gitignore"})
    /\ pc' = "git"
    /\ UNCHANGED <<graphVars, status, stdout, git, runFrame, src_folder, pyproject_toml>>

\* git init, git add ., git commit -m init, git branch -M main
GitCommands == <<"init", "add", "commit", "branch">>

\* what subprocess.run(..., check=True) can do: return, raise
\* CalledProcessError (non-zero exit status), raise FileNotFoundError (no
\* git executable to start), or raise another OSError (PermissionError: the
\* executable may not be run)
GitResults == {"ok", "nonzero", "not_started", "os_error"}

\* the build_basic_project call the process is in, or has ended in, is the
\* one inside main's try block (cli.py 322): the --skip-config path, where
\* no except clause has run
InTry ==
    /\ args.skip_config
    /\ built # <<>>
    /\ ~update_needed
    /\ pc \notin {"main", "git_user_config", "skip_config", "prompt_for_user_config",
                  "prompt_for_project_config", "dump_config", "build_basic_project"}

\* build_vcs, the next subprocess.run of the try block, with the except
\* clause and the closing print when the block is left.  A git executable
\* that cannot be started raises FileNotFoundError or another OSError,
\* which build_vcs does not catch; inside main's try block main's "except
\* FileNotFoundError" catches the first and starts with its print
build_vcs_git(result) ==
    /\ At("git")
    /\ git' = Append(git, result)
    /\ written' = written \cup
          IF result = "ok" /\ GitCommands[Len(git) + 1] = "init" THEN {".git"} ELSE {}
    /\ CASE result = "ok" /\ Len(git) + 1 < Len(GitCommands) ->
              UNCHANGED <<pc, status, stdout>>
         [] result = "ok" /\ Len(git) + 1 = Len(GitCommands) ->
              /\ stdout' = Append(stdout, "git_initialized")
              /\ pc' = "success"
              /\ UNCHANGED status
         [] result = "nonzero" ->
              /\ stdout' = stdout \o <<"git_warning", "git_initialized">>
              /\ pc' = "success"
              /\ UNCHANGED status
         [] result = "not_started" ->
              IF InTry
              THEN /\ stdout' = Append(stdout, "first_run")
                   /\ pc' = "prompt_for_user_config"
                   /\ UNCHANGED status
              ELSE /\ status' = "raised"
                   /\ UNCHANGED <<pc, stdout>>
         [] result = "os_error" ->
              /\ status' = "raised"
              /\ UNCHANGED <<pc, stdout>>
    /\ UNCHANGED <<graphVars, root, runFrame, src_folder, pyproject_toml>>

\* print("Project ... created successfully.") and return
build_basic_project_success ==
    /\ At("success")
    /\ stdout' = Append(stdout, "created")
    /\ pc' = "done"
    /\ UNCHANGED <<graphVars, status, root, written, git, runFrame, src_folder, pyproject_toml>>

---------------------------------------------------------------------------
(* Processes on one project root, one after the other: each either calls   *)
(* build_basic_project with the configuration, or registers shipped        *)
(* plugins on a new graph and builds them in the order of get_build_order. *)

\* every build of the order has been invoked
AllBuilt ==
    /\ pc = "none"
    /\ outcome.kind = "return"
    /\ Len(started) = Len(outcome.build_order)

\* the process ran to completion
RunSucceeded == status = "running" /\ (pc = "done" \/ AllBuilt)

RunEnded == status # "running" \/ pc = "done" \/ AllBuilt

\* the orders in which _plugins can iterate the shipped plugins: a set of
\* classes is ordered by their hashes, which are their addresses in the
\* process, so every order can occur
ShippedOrders == Orderings({"Core", "ReadMe", "PyProjectToml"})

\* the add_plugin calls of a process that builds with the plugins
PluginRuns == {<<"Core">>, <<"Core", "ReadMe", "PyProjectToml">>}

\* the graph of a process after its add_plugin calls and get_build_order
PluginRun(calls) ==
    LET r == Replay(EmptyDict, {}, calls)
    IN [graph |-> GetBuildOrder(r.graph, r.plugins).graph,
        plugins |-> r.plugins,
        outcome |-> GetBuildOrder(r.graph, r.plugins).outcome]

StartBasicProcess ==
    /\ pc' = "start"
    /\ _graph' = EmptyDict
    /\ _plugins' = {}
    /\ hist' = <<>>
    /\ outcome' = NoOutcome

StartPluginProcess(calls) ==
    /\ pc' = "none"
    /\ _graph' = PluginRun(calls).graph
    /\ _plugins' = PluginRun(calls).plugins
    /\ hist' = calls
    /\ outcome' = PluginRun(calls).outcome

\* the next process on the same project root
StartProcess ==
    /\ RunEnded
    /\ runs < MaxRuns
    /\ runs' = runs + 1
    /\ succeeded' = (succeeded \/ RunSucceeded)
    /\ before' = [root |-> root, written |-> written]
    /\ status' = "running"
    /\ started' = <<>>
    /\ stdout' = <<>>
    /\ git' = <<>>
    /\ StartBasicProcess \/ \E calls \in PluginRuns : StartPluginProcess(calls)
    /\ src_folder' = Unset
    /\ UNCHANGED <<dependencies, hashOrder, root, written, cfg, cliVars, loopVars,
                   pyproject_toml>>

ScaffoldInit ==
    /\ dependencies = ShippedDependencies
    /\ hashOrder \in ShippedOrders
    /\ root \in {"absent", "empty_dir", "nonempty_dir", "file"}
    /\ written = {}
    /\ status = "running"
    /\ started = <<>>
    /\ stdout = <<>>
    /\ git = <<>>
    /\ runs = 1
    /\ before = [root |-> root, written |-> written]
    /\ succeeded = FALSE
    /\ NoCli
    /\ NoLoop
    /\ src_folder = Unset
    /\ pyproject_toml = {}
    /\ \/ /\ pc = "start"
          /\ cfg \in {BuildConfig(c, "demo", "Hatchling") : c \in RunConfigs}
          /\ _graph = EmptyDict
          /\ _plugins = {}
          /\ hist = <<>>
          /\ outcome = NoOutcome
       \/ \E calls \in PluginRuns :
          /\ pc = "none"
          /\ cfg = BuildConfig(PromptDefaults, "demo", "Hatchling")
          /\ _graph = PluginRun(calls).graph
          /\ _plugins = PluginRun(calls).plugins
          /\ hist = calls
          /\ outcome = PluginRun(calls).outcome

\* the steps of build_basic_project, in the order of its statements
build_basic_project ==
    \/ build_basic_project_check
    \/ build_basic_project_mkdir
    \/ build_basic_project_readme
    \/ build_basic_project_src_folder
    \/ build_tests
    \/ build_pre_commit_config
    \/ build_static_checkers
    \/ build_formatter
    \/ build_editor_config
    \/ build_docs
    \/ build_cloud_code_base
    \/ build_vcs_gitignore
    \/ \E result \in GitResults : build_vcs_git(result)
    \/ build_basic_project_success

ScaffoldNext ==
    \/ build_basic_project
    \/ BuildCore
    \/ BuildReadMe
    \/ BuildPyProjectToml
    \/ StartProcess

ScaffoldSpec == ScaffoldInit /\ [][ScaffoldNext]_vars

---------------------------------------------------------------------------
(* C11: a process that finds the project root a non-empty directory        *)
(* creates and changes nothing under it, and once Core.build or the check  *)
(* of build_basic_project has run, the diagnostic is printed and the       *)
(* process has ended with exit status 1.                                   *)
C11_NonEmptyRootExits ==
    before.root = "nonempty_dir" =>
        /\ root = before.root
        /\ written = before.written
        /\ git = <<>>
        /\ (pc # "none" /\ stdout # <<>>) =>
              /\ status = "exit 1"
              /\ pc = "start"
              /\ stdout = <<"building", "not_empty">>
        /\ (pc = "none" /\ started # <<>>) =>
              /\ status = "exit 1"
              /\ started = <<"Core">>
              /\ stdout = <<"not_empty">>

\* Core.build has refused a directory that holds something this program
\* did not write
C11_Witness ==
    /\ runs = 1
    /\ before.root = "nonempty_dir"
    /\ started = <<"Core">>
    /\ status = "exit 1"

(* C12: once a process has run to completion on a project root, every     *)
(* later process on that root leaves the root and everything under it as   *)
(* it found them, can only take the non-empty check, and ends there with   *)
(* exit status 1.                                                          *)
C12_RerunExits ==
    succeeded =>
        /\ root = "nonempty_dir"
        /\ root = before.root
        /\ written = before.written
        /\ git = <<>>
        /\ status = "running" =>
              /\ started = <<>>
              /\ stdout = <<>>
              /\ ENABLED (build_basic_project_check \/ BuildCore)
        /\ RunEnded =>
              /\ status = "exit 1"
              /\ \/ pc = "start" /\ stdout = <<"building", "not_empty">>
                 \/ pc = "none" /\ started = <<"Core">> /\ stdout = <<"not_empty">>

\* build_basic_project run again on the project it has created, git
\* repository included
C12_Witness ==
    /\ succeeded
    /\ pc = "start"
    /\ status = "exit 1"
    /\ {".git", ".gitignore", "pyproject.toml"} \subseteq written

(* C13: when a git command of build_vcs has failed, by a non-zero exit     *)
(* status or by not starting, .gitignore is written, the warning is        *)
(* printed, no further git command runs, and build_basic_project goes on   *)
(* to print its success message.                                           *)
C13_GitFailureIsWarning ==
    (git # <<>> /\ git[Len(git)] # "ok") =>
        /\ ".gitignore" \in written
        /\ status = "running"
        /\ \E i \in DOMAIN stdout : stdout[i] = "git_warning"
        /\ \/ pc = "success" /\ ENABLED build_basic_project_success
           \/ pc = "done" /\ stdout[Len(stdout)] = "created"

(* C14: a run of build_basic_project in which a step has raised runs no    *)
(* further step and prints no success message; with the documentation      *)
(* generator "sphinx" the run never gets past build_docs: no workflow      *)
(* file, no .gitignore and no git command, while everything the steps      *)
(* before build_docs wrote is still there when build_docs has raised.      *)
C14_FailedStepAbandonsRun ==
    /\ (pc # "none" /\ status = "raised") =>
          /\ ~ENABLED build_basic_project
          /\ \A i \in DOMAIN stdout : stdout[i] # "created"
    /\ (pc # "none" /\ cfg.docs = "sphinx" /\ before.root = "absent") =>
          /\ pc \notin {"build_cloud_code_base", "build_vcs", "git", "success", "done"}
          /\ written \cap {".github", ".github/workflows", ".github/workflows/ci.yml",
                           ".github/workflows/release.yml", ".gitignore", ".git",
                           "mkdocs.yml", "docs", "docs/index.md"} = {}
          /\ git = <<>>
          /\ (pc = "build_docs" /\ status = "raised") =>
                /\ root = "nonempty_dir"
                /\ {"pyproject.toml", "README.md", "src_folder",
                    "src_folder/__init__.py", "tests", "tests/__init__.py"}
                       \subseteq written
                /\ cfg.pre_commit => ".pre-commit-config.yaml" \in written
                /\ cfg.code_editor = "vscode" => "project.code-workspace" \in written

\* build_docs has raised for "sphinx" in a run that was to write the
\* workflow files next
C14_Witness ==
    /\ pc = "build_docs"
    /\ status = "raised"
    /\ cfg.docs = "sphinx"
    /\ cfg.cloud_code_base = "github"
    /\ "tests/__init__.py" \in written

---------------------------------------------------------------------------
(* The prompts of src/src/scaffoldpy/cli.py.  A question put to the user   *)
(* is recorded with its answer: [q |-> the question, a |-> the answer].    *)

Question(q, a) == [q |-> q, a |-> a]

\* the answers in the wrong fields
prompt_for_user_config_swapped(g, author, author_email) ==
    IF g # None
    THEN [result |-> g, asked |-> <<>>]
    ELSE [result |-> [author |-> author_email, author_email |-> author],
          asked |-> <<Question("author", author),
                      Question("author_email", author_email)>>]

\* prompt_for_user_config(git_user_config), with the user's answers to the
\* two inquirer.text questions
prompt_for_user_config(g, author, author_email) ==
    IF g # None
    THEN [result |-> g, asked |-> <<>>]
    ELSE [result |-> [author |-> author, author_email |-> author_email],
          asked |-> <<Question("author", author),
                      Question("author_email", author_email)>>]

\* the labels of the minimum python version question
MinPyLabels == {"3.9", "3.10", "3.11", "3.12", "3.13"}

\* Choice(value=..., name=...): the value stored for the label chosen
MinPyValue(label) ==
    CASE label = "3.9" -> "3.9"
      [] label = "3.10" -> "3.10"
      [] label = "3.11" -> "3.8"
      [] label = "3.12" -> "3.7"
      [] label = "3.13" -> "3.6"

\* the ten questions after "use the default configuration?", in order
ConfigQuestions ==
    <<"min_py_version", "layout", "build_backend", "static_code_checkers",
      "formatters", "spell_checker", "docs", "code_editor", "pre_commit",
      "cloud_code_base">>

\* every question answered with its default
DefaultSheet ==
    [min_py_version |-> "3.10",
     layout |-> "src",
     build_backend |-> "Hatchling",
     static_code_checkers |-> <<"flake8", "mypy", "pyright", "pylint">>,
     formatters |-> <<"ruff", "isort">>,
     spell_checker |-> "cspell",
     docs |-> "mkdocs",
     code_editor |-> "vscode",
     pre_commit |-> TRUE,
     cloud_code_base |-> "github"]

\* the answers the user may give to the ten questions; a check-box answer
\* is the list of the selected values in the order of the choices
AnswerSheets ==
    {[DefaultSheet EXCEPT !.min_py_version = l, !.layout = y, !.docs = d,
                          !.formatters = f] :
        l \in MinPyLabels, y \in Layouts, d \in {"None", "mkdocs", "sphinx"},
        f \in {<<"ruff", "isort">>, <<"isort", "black">>}}

\* the ten assignments config[q] = inquirer...execute()
Answered(config, sheet) ==
    [config EXCEPT
        !.min_py_version = MinPyValue(sheet.min_py_version),
        !.layout = sheet.layout,
        !.build_backend = sheet.build_backend,
        !.static_code_checkers = sheet.static_code_checkers,
        !.formatters = sheet.formatters,
        !.spell_checker = sheet.spell_checker,
        !.docs = sheet.docs,
        !.code_editor = sheet.code_editor,
        !.pre_commit = sheet.pre_commit,
        !.cloud_code_base = sheet.cloud_code_base]

AskedSheet(sheet) == [i \in DOMAIN ConfigQuestions |->
                         Question(ConfigQuestions[i], sheet[ConfigQuestions[i]])]

\* project_name if project_name is not None else prompt_for_project_name()
ProjectName(project_name, typed) ==
    [result |-> IF project_name # "None" THEN project_name ELSE typed,
     asked |-> IF project_name # "None" THEN <<>>
               ELSE <<Question("project_name", typed)>>]

\* config = DEFAULT_PROJECT_CONFIG without the .copy(): the assignments go
\* to the module-level dict
prompt_for_project_config_aliased(D, project_name, typed, use_default, sheet) ==
    LET name == ProjectName(project_name, typed)
        config == [D EXCEPT !.project_name = name.result]
        first == name.asked \o <<Question("use_default", use_default)>>
    IN IF use_default
       THEN [result |-> config, asked |-> first, DEFAULT |-> config]
       ELSE [result |-> Answered(config, sheet),
             asked |-> first \o AskedSheet(sheet),
             DEFAULT |-> Answered(config, sheet)]

\* prompt_for_project_config(project_name) with the module-level dict D:
\* the returned config, the questions asked, and D after the call
prompt_for_project_config(D, project_name, typed, use_default, sheet) ==
    LET name == ProjectName(project_name, typed)
        config == [D EXCEPT !.project_name = name.result]
        first == name.asked \o <<Question("use_default", use_default)>>
    IN IF use_default
       THEN [result |-> config, asked |-> first, DEFAULT |-> D]
       ELSE [result |-> Answered(config, sheet),
             asked |-> first \o AskedSheet(sheet),
             DEFAULT |-> D]

---------------------------------------------------------------------------
(* main (cli.py 286-370), one action per stretch of statements between two *)
(* branch points; its build_basic_project call continues with the steps of *)
(* build_basic_project above.                                              *)

Ada == [author |-> "Ada", author_email |-> "ada@example.com"]

Bob == [author |-> "Bob", author_email |-> "bob@example.com"]

\* what the user may type as name and e-mail address
TypedAuthors == {"Ada", "Bob"}

TypedEmails == {"ada@example.com", "bob@example.com"}

\* what the user may type as project name
TypedNames == {"typed", "other"}

\* the project configurations a valid configuration file may hold
SavedProjectConfigs ==
    {[DefaultProjectConfig EXCEPT !.project_name = "saved"],
     [DefaultProjectConfig EXCEPT !.project_name = "saved", !.layout = "flat",
                                  !.docs = "None", !.cloud_code_base = "None"]}

\* "corrupt": JSON5 that PydConfig rejects; "garbage": not JSON5 at all
ConfigFiles ==
    {[kind |-> "absent"], [kind |-> "corrupt"], [kind |-> "garbage"]}
    \cup [kind : {"valid"}, user_config : {Ada, Bob},
          project_config : SavedProjectConfigs]

\* the project root of the build call, and what the process has done in it
loadFrame ==
    <<graphVars, runs, before, succeeded, args, git_user_config, loopVars,
      root, written, git, src_folder, pyproject_toml>>

mainFrame == <<loadFrame, status>>

\* try: open(config_path), PydConfig.validate_python(ujson5.load(f)); the
\* two except clauses start with their print.  They catch FileNotFoundError
\* and pydantic's ValidationError: the decode error ujson5.load raises on
\* text that is not JSON5 leaves main
main_load ==
    /\ At("main")
    /\ status' = IF config_file.kind = "garbage" THEN "raised" ELSE status
    /\ CASE config_file.kind = "valid" ->
              /\ user_config' = config_file.user_config
              /\ project_config' = config_file.project_config
              /\ stdout' = stdout \o <<"loading", "welcome_back">>
              /\ pc' = "git_user_config"
         [] config_file.kind = "garbage" ->
              /\ stdout' = Append(stdout, "loading")
              /\ UNCHANGED <<pc, user_config, project_config>>
         [] config_file.kind = "absent" ->
              /\ stdout' = stdout \o <<"loading", "first_run">>
              /\ pc' = "prompt_for_user_config"
              /\ UNCHANGED <<user_config, project_config>>
         [] config_file.kind = "corrupt" ->
              /\ stdout' = stdout \o <<"loading", "corrupt">>
              /\ pc' = "prompt_for_user_config"
              /\ UNCHANGED <<user_config, project_config>>
    /\ UNCHANGED <<loadFrame, cfg, config_file, asked, update_needed,
                   DEFAULT_PROJECT_CONFIG, built, dumps>>

\* the saved user configuration differs from git's: offer to take git's
main_git_user_config ==
    /\ At("git_user_config")
    /\ IF git_user_config # None /\ user_config # git_user_config
       THEN \E update_user_config \in BOOLEAN :
               /\ asked' = Append(asked, Question("update_user_config", update_user_config))
               /\ user_config' = IF update_user_config THEN git_user_config
                                 ELSE user_config
               /\ stdout' = Append(stdout, "git_differs")
       ELSE UNCHANGED <<asked, user_config, stdout>>
    /\ pc' = "skip_config"
    /\ UNCHANGED <<mainFrame, cfg, config_file, project_config, update_needed,
                   DEFAULT_PROJECT_CONFIG, built, dumps>>

\* if skip_config: the project name, print, build_basic_project(...), return
main_skip_config ==
    /\ At("skip_config")
    /\ args.skip_config
    /\ \E typed \in TypedNames :
          LET name == ProjectName(args.project_name, typed)
              config == [project_config EXCEPT !.project_name = name.result]
          IN /\ asked' = asked \o name.asked
             /\ project_config' = config
             /\ built' = Append(built, [user_config |-> user_config,
                                        project_config |-> config])
             /\ cfg' = AsRead(config)
    /\ stdout' = Append(stdout, "skipping")
    /\ pc' = "start"
    /\ UNCHANGED <<mainFrame, config_file, user_config, update_needed,
                   DEFAULT_PROJECT_CONFIG, dumps>>

\* otherwise: use the previous configuration? if not, prompt_for_project_config
\* and "save this configuration?"
main_use_prev ==
    /\ At("skip_config")
    /\ ~args.skip_config
    /\ \E use_prev \in BOOLEAN :
          IF use_prev
          THEN /\ asked' = Append(asked, Question("use_prev", use_prev))
               /\ UNCHANGED <<project_config, update_needed, DEFAULT_PROJECT_CONFIG,
                              stdout>>
          ELSE \E typed \in TypedNames, use_default \in BOOLEAN,
                  sheet \in AnswerSheets, save \in BOOLEAN :
                  LET r == prompt_for_project_config(DEFAULT_PROJECT_CONFIG,
                               args.project_name, typed, use_default, sheet)
                  IN /\ asked' = Append(asked, Question("use_prev", use_prev))
                                    \o r.asked \o <<Question("save", save)>>
                     /\ project_config' = r.result
                     /\ DEFAULT_PROJECT_CONFIG' = r.DEFAULT
                     /\ update_needed' = save
                     /\ stdout' = Append(stdout, "update_config")
    /\ pc' = "dump_config"
    /\ UNCHANGED <<mainFrame, cfg, config_file, user_config, built, dumps>>

\* in both except clauses: user_config = prompt_for_user_config(git_user_config)
main_prompt_for_user_config ==
    /\ At("prompt_for_user_config")
    /\ \E author \in TypedAuthors, author_email \in TypedEmails :
          LET r == prompt_for_user_config(git_user_config, author, author_email)
          IN /\ user_config' = r.result
             /\ asked' = asked \o r.asked
    /\ stdout' = Append(stdout, IF git_user_config # None THEN "good_news"
                                ELSE "set_up_user")
    /\ pc' = "prompt_for_project_config"
    /\ UNCHANGED <<mainFrame, cfg, config_file, project_config, update_needed,
                   DEFAULT_PROJECT_CONFIG, built, dumps>>

\* in both except clauses: project_config = prompt_for_project_config(
\* project_name); update_needed = True
main_prompt_for_project_config ==
    /\ At("prompt_for_project_config")
    /\ \E typed \in TypedNames, use_default \in BOOLEAN, sheet \in AnswerSheets :
          LET r == prompt_for_project_config(DEFAULT_PROJECT_CONFIG,
                       args.project_name, typed, use_default, sheet)
          IN /\ project_config' = r.result
             /\ asked' = asked \o r.asked
             /\ DEFAULT_PROJECT_CONFIG' = r.DEFAULT
    /\ update_needed' = TRUE
    /\ pc' = "dump_config"
    /\ UNCHANGED <<mainFrame, cfg, stdout, config_file, user_config, built, dumps>>

\* if update_needed: dump_config(config_path, ...), print, dump_schema,
\* copy_workspace_file, which prints a failure when the workspace file is
\* not among the files of the installed package
main_dump_config ==
    /\ At("dump_config")
    /\ IF update_needed
       THEN /\ config_file' = [kind |-> "valid", user_config |-> user_config,
                               project_config |-> project_config]
            /\ dumps' = dumps + 1
            /\ \E packaged \in BOOLEAN :
                  stdout' = stdout \o (IF packaged THEN <<"saved">>
                                       ELSE <<"saved", "copy_failed">>)
       ELSE UNCHANGED <<config_file, dumps, stdout>>
    /\ pc' = "build_basic_project"
    /\ UNCHANGED <<mainFrame, cfg, asked, user_config, project_config,
                   update_needed, DEFAULT_PROJECT_CONFIG, built>>

\* the last statement: build_basic_project({user_config, project_config})
\* When a build call was made before (the one of the --skip-config path,
\* left through the except clause) and the project name has changed since,
\* the project root of this call is another directory: it may exist or not,
\* and the process has done nothing in it
main_build_basic_project ==
    /\ At("build_basic_project")
    /\ built' = Append(built, [user_config |-> user_config,
                               project_config |-> project_config])
    /\ cfg' = AsRead(project_config)
    /\ pc' = "start"
    /\ IF built # <<>> /\ built[Len(built)].project_config.project_name
                              # project_config.project_name
       THEN /\ root' \in {"absent", "nonempty_dir"}
            /\ written' = {}
            /\ git' = <<>>
            /\ src_folder' = Unset
            /\ pyproject_toml' = {}
       ELSE UNCHANGED <<root, written, git, src_folder, pyproject_toml>>
    /\ UNCHANGED <<graphVars, runs, before, succeeded, args, git_user_config,
                   loopVars, status, stdout, config_file, asked, user_config,
                   project_config, update_needed, DEFAULT_PROJECT_CONFIG, dumps>>

main ==
    \/ main_load
    \/ main_git_user_config
    \/ main_skip_config
    \/ main_use_prev
    \/ main_prompt_for_user_config
    \/ main_prompt_for_project_config
    \/ main_dump_config
    \/ main_build_basic_project

CliInit ==
    /\ dependencies = ShippedDependencies
    /\ hashOrder \in {<<"Core", "ReadMe", "PyProjectToml">>}
    /\ _graph = EmptyDict
    /\ _plugins = {}
    /\ hist = <<>>
    /\ outcome = NoOutcome
    /\ started = <<>>
    /\ status = "running"
    /\ root \in {"absent", "nonempty_dir"}
    /\ written = {}
    /\ pc = "main"
    /\ cfg = PromptDefaults
    /\ stdout = <<>>
    /\ git = <<>>
    /\ runs = 1
    /\ before = [root |-> root, written |-> written]
    /\ succeeded = FALSE
    /\ args \in [project_name : {"None", "demo"}, skip_config : BOOLEAN]
    /\ git_user_config \in {None, Ada}
    /\ config_file \in ConfigFiles
    /\ asked = <<>>
    /\ user_config = Unset
    /\ project_config = Unset
    /\ update_needed = FALSE
    /\ DEFAULT_PROJECT_CONFIG \in DefaultProjectConfigs
    /\ built = <<>>
    /\ dumps = 0
    /\ NoLoop
    /\ src_folder = Unset
    /\ pyproject_toml = {}

CliNext == main \/ build_basic_project

CliSpec == CliInit /\ [][CliNext]_vars

(* C15: prompt_for_user_config returns the git user configuration it is   *)
(* given and asks nothing; given None it asks two questions, the name and  *)
(* then the e-mail address, and returns the two answers as author and      *)
(* author_email.                                                           *)
C15_PromptForUserConfig ==
    pc = "prompt_for_project_config" =>
        LET n == Len(asked)
            own == {i \in DOMAIN asked : asked[i].q \in {"author", "author_email"}}
        IN IF git_user_config # None
           THEN user_config = git_user_config /\ own = {}
           ELSE /\ own = {n - 1, n}
                /\ n >= 2
                /\ asked[n - 1].q = "author"
                /\ asked[n].q = "author_email"
                /\ user_config = [author |-> asked[n - 1].a,
                                  author_email |-> asked[n].a]

\* the user has typed a name and an address that belong to different people
C15_Witness ==
    /\ pc = "prompt_for_project_config"
    /\ git_user_config = None
    /\ user_config = [author |-> "Bob", author_email |-> "ada@example.com"]

\* the ten questions follow question i, and each is answered with the value
\* DEFAULT_PROJECT_CONFIG holds for it
AllDefaultAfter(i) ==
    /\ Len(asked) >= i + Len(ConfigQuestions)
    /\ \A k \in DOMAIN ConfigQuestions :
          /\ asked[i + k].q = ConfigQuestions[k]
          /\ asked[i + k].a = DEFAULT_PROJECT_CONFIG[ConfigQuestions[k]]

(* C16: when the user accepts the default configuration, or answers every  *)
(* question with the value DEFAULT_PROJECT_CONFIG holds for it,            *)
(* prompt_for_project_config returns DEFAULT_PROJECT_CONFIG with           *)
(* project_name replaced by the argument, or by the name typed when the    *)
(* argument is None; and no step changes the module-level                  *)
(* DEFAULT_PROJECT_CONFIG.                                                 *)
C16_DefaultConfigReturned ==
    /\ [](\A i \in DOMAIN asked :
            (asked[i].q = "use_default" /\ (asked[i].a \/ AllDefaultAfter(i))) =>
                /\ args.project_name = "None" => asked[i - 1].q = "project_name"
                /\ project_config =
                      [DEFAULT_PROJECT_CONFIG EXCEPT
                          !.project_name =
                              IF args.project_name # "None" THEN args.project_name
                              ELSE asked[i - 1].a])
    /\ [][DEFAULT_PROJECT_CONFIG' = DEFAULT_PROJECT_CONFIG]_vars

\* every question answered with the value of a DEFAULT_PROJECT_CONFIG that
\* is not the questions' defaults, after a name was typed
C16_Witness ==
    /\ args.project_name = "None"
    /\ DEFAULT_PROJECT_CONFIG.formatters = <<"isort", "black">>
    /\ \E i \in DOMAIN asked :
          /\ asked[i].q = "use_default"
          /\ ~asked[i].a
          /\ AllDefaultAfter(i)
    /\ project_config.project_name = "other"
    /\ project_config.pkg_license = "Apache-2.0"
    /\ pc = "done"

\* the positions of main before its build_basic_project call
MainPositions ==
    {"main", "git_user_config", "skip_config", "prompt_for_user_config",
     "prompt_for_project_config", "dump_config", "build_basic_project"}

(* C17: with --skip-config main asks no question about the project         *)
(* configuration, does not write the configuration file, and calls         *)
(* build_basic_project at most once: when it has gone on to build, exactly *)
(* once, with the project name of the command line or of the project-name  *)
(* question.                                                               *)
C17_SkipConfigSkips ==
    args.skip_config =>
        /\ \A i \in DOMAIN asked : asked[i].q \notin
              {"use_prev", "use_default", "save"}
                  \cup {ConfigQuestions[k] : k \in DOMAIN ConfigQuestions}
        /\ dumps = 0
        /\ Len(built) <= 1
        /\ pc \notin MainPositions =>
              /\ Len(built) = 1
              /\ built[1].project_config.project_name =
                    IF args.project_name # "None" THEN args.project_name
                    ELSE asked[Len(asked)].a

---------------------------------------------------------------------------
(* The order in which the add_plugin calls insert the plugins into         *)
(* _plugins: for each call the dependencies in list order, then the plugin *)
(* itself; a plugin already in the set keeps its place.                    *)

RECURSIVE AppendNew(_, _)
AppendNew(s, xs) ==
    IF xs = <<>> THEN s
    ELSE AppendNew(IF Head(xs) \in SeqToSet(s) THEN s ELSE Append(s, Head(xs)),
                   Tail(xs))

RECURSIVE InsertionOrder(_)
InsertionOrder(calls) ==
    IF calls = <<>> THEN <<>>
    ELSE LET front == SubSeq(calls, 1, Len(calls) - 1)
             last == calls[Len(calls)]
         IN AppendNew(InsertionOrder(front), Append(dependencies[last], last))

\* the plugins a plugin of S depends on, directly or through other plugins
RECURSIVE DependencyClosure(_)
DependencyClosure(S) ==
    LET T == S \cup UNION {SeqToSet(dependencies[p]) : p \in S}
    IN IF T = S THEN S ELSE DependencyClosure(T)

(* C18: the initial work queue holds the known plugins of in-degree zero   *)
(* in the order of their first insertion into _plugins, and the first      *)
(* element of a returned build order is the earliest-inserted plugin       *)
(* without dependencies.                                                   *)
C18_QueueInInsertionOrder ==
    LET in_degree == InDegree(_graph, _plugins)
        expected == SelectSeq(InsertionOrder(hist), LAMBDA p : in_degree[p] = 0)
    IN /\ InitialQueue(_graph, _plugins) = expected
       /\ (outcome.kind = "return" /\ outcome.build_order # <<>>) =>
             outcome.build_order[1] = expected[1]

(* C19: the in-degree computed for a known plugin is the number of         *)
(* distinct plugins in its dependencies list, whatever the add_plugin      *)
(* calls were (repeated registrations, repeated names in a list).          *)
C19_InDegreeCountsDistinctDependencies ==
    \A p \in _plugins :
        InDegree(_graph, _plugins)[p] = Cardinality(SeqToSet(dependencies[p]))

(* C20: the known plugins include every registered plugin and every        *)
(* plugin reachable from one through the dependencies lists, transitively. *)
C20_KnownPluginsTransitive ==
    DependencyClosure(Registered) \subseteq _plugins

(* C23: a get_build_order call, whether it returns or raises, leaves the   *)
(* known plugins and the recorded edges as they were; called again with no *)
(* add_plugin in between it gives the outcome it gave before; and its      *)
(* outcome is that of a graph given all the add_plugin calls made so far   *)
(* and asked once.                                                         *)
C23_RegistrationsKept ==
    [][get_build_order =>
          /\ _plugins' = _plugins
          /\ Entries(_graph') = Entries(_graph)
          /\ Called => outcome' = outcome
          /\ outcome' = FreshOutcome(hist)]_vars

\* the call has raised on a cycle after taking from the queue a plugin that
\* nothing depends on: reading its adjacency list has given _graph a key
C23_Witness ==
    /\ outcome.kind = "raise"
    /\ \E k \in DOMAIN _graph : _graph[k] = <<>> /\ dependencies[k] = <<>>
    /\ Len(hist) = 3

---------------------------------------------------------------------------
(* get_build_order followed through its statements: the in-degree count    *)
(* and the seeding of the queue (lines 103-110), the iterations of         *)
(* `while queue:` one by one (112-120), and the length check (123-126).    *)
(* The program is single-threaded: no add_plugin runs during the call.     *)

\* the call's locals, as the record LoopStep works on
CallState ==
    [graph |-> _graph, in_degree |-> call.in_degree,
     queue |-> call.queue, build_order |-> call.build_order]

\* in_degree, queue and build_order as lines 103-110 leave them
get_build_order_begin ==
    /\ Registering
    /\ call.pc # "while"
    /\ LET st == LoopStart(_graph, _plugins)
       IN /\ call' = [pc |-> "while", in_degree |-> st.in_degree,
                      queue |-> st.queue, build_order |-> st.build_order]
          /\ work' = [queued |-> st.queue, decrements |-> 0]
    /\ outcome' = NoOutcome
    /\ UNCHANGED <<dependencies, hashOrder, _graph, _plugins, hist, started, status,
                   root, written, pc, cfg, stdout, git, runs, before, succeeded,
                   cliVars, src_folder, pyproject_toml>>

\* one iteration of the while loop: popleft, append, and the for loop over
\* self._graph[current]
get_build_order_while ==
    /\ call.pc = "while"
    /\ call.queue # <<>>
    /\ LET st == LoopStep(CallState)
           neighbors == DictGet(_graph, Head(call.queue))
       IN /\ _graph' = st.graph
          /\ call' = [call EXCEPT !.in_degree = st.in_degree, !.queue = st.queue,
                                  !.build_order = st.build_order]
          /\ work' = [queued |-> work.queued
                                    \o SubSeq(st.queue, Len(call.queue), Len(st.queue)),
                      decrements |-> work.decrements + Len(neighbors)]
    /\ UNCHANGED <<dependencies, hashOrder, _plugins, hist, outcome, started, status,
                   root, written, pc, cfg, stdout, git, runs, before, succeeded,
                   cliVars, src_folder, pyproject_toml>>

\* the queue is empty: the length check, then raise or return
get_build_order_end ==
    /\ call.pc = "while"
    /\ call.queue = <<>>
    /\ call' = [call EXCEPT !.pc = "done"]
    /\ outcome' = IF Len(call.build_order) # Cardinality(_plugins)
                  THEN [kind |-> "raise", build_order |-> <<>>]
                  ELSE [kind |-> "return", build_order |-> call.build_order]
    /\ UNCHANGED <<dependencies, hashOrder, _graph, _plugins, hist, started, status,
                   root, written, pc, cfg, stdout, git, runs, before, succeeded,
                   cliVars, work, src_folder, pyproject_toml>>

LoopInit ==
    /\ dependencies \in {ShippedDependencies} \cup UserDependencies
    /\ hashOrder \in Orderings(DOMAIN dependencies)
    /\ _graph = EmptyDict
    /\ _plugins = {}
    /\ hist = <<>>
    /\ outcome = NoOutcome
    /\ started = <<>>
    /\ status = "running"
    /\ root = "absent"
    /\ written = {}
    /\ NoRun

LoopNext ==
    \/ \E plugin \in Plugins : call.pc # "while" /\ add_plugin(plugin)
    \/ get_build_order_begin
    \/ get_build_order_while
    \/ get_build_order_end

LoopSpec == LoopInit /\ [][LoopNext]_vars

\* the user-defined classes are interchangeable and UserDependencies holds
\* every renaming of each of its members, so one iteration order of the set
\* stands for all six
LoopFairInit ==
    /\ LoopInit
    /\ dependencies # ShippedDependencies => hashOrder = <<"A", "B", "C">>

\* the call, once begun, runs on: nothing else is scheduled in the process
LoopFairSpec ==
    /\ LoopFairInit
    /\ [][LoopNext]_vars
    /\ WF_vars(get_build_order_while)
    /\ WF_vars(get_build_order_end)

\* a call is in its loop, or has ended with no add_plugin since
InCall == call.pc = "while" \/ (call.pc = "done" /\ Called)

\* the plugins taken from the queue so far
Popped == SeqToSet(call.build_order)

(* C21: at the head of every iteration of the loop and when it is left: a  *)
(* plugin is in the queue or in the output only if the source of every     *)
(* recorded edge into it is in the output; the in-degree of a plugin not   *)
(* yet queued is the number of the entries recorded for it (one per        *)
(* add_plugin call and list position) whose source has not been popped;    *)
(* and the output followed by the queue is the sequence of the plugins in  *)
(* the order they were queued.                                             *)
C21_LoopInvariant ==
    InCall =>
        /\ \A e \in Entries(_graph) :
              e[3] \in SeqToSet(call.queue) \cup Popped => e[1] \in Popped
        /\ \A p \in _plugins \ SeqToSet(work.queued) :
              call.in_degree[p] =
                 Cardinality({e \in Entries(_graph) : e[3] = p /\ e[1] \notin Popped})
        /\ work.queued = call.build_order \o call.queue

\* two iterations in: a plugin waits in the queue behind one that was
\* queued by a decrement, and another still has an unpopped source
C21_Witness ==
    /\ call.pc = "while"
    /\ Len(call.build_order) >= 1
    /\ call.queue # <<>>
    /\ work.decrements >= 1
    /\ \E p \in _plugins \ SeqToSet(work.queued) : call.in_degree[p] >= 1

(* C22: in every call, whatever the add_plugin calls were: no in-degree    *)
(* counter is negative, no plugin is put into the queue twice, the output  *)
(* holds no plugin twice and is not longer than the known plugins are      *)
(* many; and when the loop is left the output has the length of the        *)
(* known-plugins set exactly when the recorded edges hold no cycle.        *)
C22_CountersAndQueue ==
    InCall =>
        /\ \A p \in _plugins : call.in_degree[p] >= 0
        /\ SeqToSet(work.queued) \subseteq _plugins
        /\ \A p \in _plugins : Count(work.queued, p) <= 1
        /\ \A p \in _plugins : Count(call.build_order, p) <= 1
        /\ Len(call.build_order) <= Cardinality(_plugins)
        /\ call.pc = "done" =>
              (Len(call.build_order) = Cardinality(_plugins) <=> ~HasCycle(_graph))

\* a plugin registered twice, so that its edge is recorded twice, in a
\* graph that also holds a cycle: the loop is left with a partial output
C22_Witness ==
    /\ call.pc = "done"
    /\ HasCycle(_graph)
    /\ call.build_order # <<>>
    /\ \E p \in _plugins : Count(hist, p) = 2 /\ dependencies[p] # <<>>

\* the work done so far is within what the registrations allow: one pop per
\* known plugin, one decrement per recorded entry
WorkBounded ==
    InCall =>
        /\ \A p \in _plugins : Count(call.build_order, p) <= 1
        /\ Popped \subseteq _plugins
        /\ work.decrements <= Cardinality(Entries(_graph))

CallEnded == call.pc = "done" /\ outcome.kind \in {"return", "raise"}

(* C24: a get_build_order call that has begun ends, by returning the order *)
(* or by raising the cycle error, whatever was registered; and up to then  *)
(* it pops no known plugin twice and makes at most one decrement for each  *)
(* recorded entry.                                                         *)
C24_Terminates ==
    []WorkBounded /\ ((call.pc = "while") ~> CallEnded)

\* the call has ended on a cycle after decrementing for every entry that
\* leaves the plugins outside the cycle
C24_Witness ==
    /\ call.pc = "done"
    /\ outcome.kind = "raise"
    /\ work.decrements >= 1
    /\ Cardinality(_plugins) = 3

---------------------------------------------------------------------------
(* One process on a project root that is absent or an empty directory,     *)
(* with every selection of static code checkers and formatters, both       *)
(* configuration preferences, build backends that build_toml knows and one *)
(* that it does not, and a project name with a "-" in it.                  *)

Backends == {"Hatchling", "Setuptools", "None", "Maturin"}

BuildConfigs ==
    {BuildConfig([PromptDefaults EXCEPT !.layout = layout,
                                        !.configuration_preference = preference,
                                        !.static_code_checkers = checkers,
                                        !.formatters = formatters],
                 name, build_backend) :
        layout \in Layouts,
        preference \in {"stand_alone", "pyproject_toml"},
        checkers \in SUBSET StaticCodeCheckers,
        formatters \in SUBSET Formatters,
        name \in ProjectNames,
        build_backend \in Backends}

BuildInit ==
    /\ dependencies = ShippedDependencies
    /\ hashOrder \in ShippedOrders
    /\ root \in {"absent", "empty_dir"}
    /\ written = {}
    /\ status = "running"
    /\ started = <<>>
    /\ stdout = <<>>
    /\ git = <<>>
    /\ runs = 1
    /\ before = [root |-> root, written |-> written]
    /\ succeeded = FALSE
    /\ NoCli
    /\ NoLoop
    /\ src_folder = Unset
    /\ pyproject_toml = {}
    /\ \/ /\ pc = "start"
          /\ cfg \in BuildConfigs
          /\ _graph = EmptyDict
          /\ _plugins = {}
          /\ hist = <<>>
          /\ outcome = NoOutcome
       \/ \E calls \in PluginRuns :
          /\ pc = "none"
          /\ cfg = BuildConfig(PromptDefaults, "demo", "Hatchling")
          /\ _graph = PluginRun(calls).graph
          /\ _plugins = PluginRun(calls).plugins
          /\ hist = calls
          /\ outcome = PluginRun(calls).outcome

BuildNext ==
    \/ build_basic_project
    \/ BuildCore
    \/ BuildReadMe
    \/ BuildPyProjectToml

BuildSpec == BuildInit /\ [][BuildNext]_vars

\* the positions of build_basic_project, in the order of its statements
BuildPositions ==
    <<"start", "mkdir", "readme", "src_folder", "build_tests",
      "build_pre_commit_config", "build_static_checkers", "build_formatter",
      "build_editor_config", "build_docs", "build_cloud_code_base", "build_vcs",
      "git", "success", "done">>

\* the process is in build_basic_project and the step at position p has run
Past(p) == Pos(BuildPositions, pc) > Pos(BuildPositions, p)

(* C25: the package directory a process has created is named project_name  *)
(* with every "-" replaced by "_", directly under the project root for the *)
(* layout "flat" and under src for "src", whether Core.build or            *)
(* build_basic_project created it; and Core.build on an absent project     *)
(* root creates the root and that directory (with src above it for "src")  *)
(* and nothing else.                                                       *)
C25_PackageDirectory ==
    src_folder # Unset =>
        /\ src_folder.path =
              PackagePath(Replace(Spelling(src_folder.project_name)), src_folder.layout)
        /\ (started = <<"Core">> /\ before.root = "absent") =>
              /\ root = "nonempty_dir"
              /\ written = IF src_folder.layout = "flat" THEN {"src_folder"}
                           ELSE {"src", "src_folder"}

(* C26: a process that finds the project root an empty directory is not    *)
(* stopped by the non-empty check nor by the creation of the project root: *)
(* neither Core.build nor the first statements of build_basic_project end  *)
(* the process.                                                            *)
C26_EmptyRootAccepted ==
    before.root = "empty_dir" =>
        /\ ~(pc \in {"start", "mkdir"} /\ status # "running")
        /\ ~(pc = "none" /\ started = <<"Core">> /\ status # "running")

\* the tools a step configures, the stand-alone file of each, and the step
ConfiguredTools == {"pytest", "mypy", "pyright", "pylint", "ruff", "isort"}

ToolFile(tool) ==
    CASE tool = "pytest" -> "pytest.ini"
      [] tool = "mypy" -> ".mypy.ini"
      [] tool = "pyright" -> "pyrightconfig.json"
      [] tool = "pylint" -> ".pylintrc"
      [] tool = "ruff" -> "ruff.toml"
      [] tool = "isort" -> ".isort.cfg"

ToolStep(tool) ==
    CASE tool = "pytest" -> "build_tests"
      [] tool \in {"mypy", "pyright", "pylint"} -> "build_static_checkers"
      [] tool \in {"ruff", "isort"} -> "build_formatter"

\* the tool is selected in the configuration (pytest always is)
Selected(tool) ==
    \/ tool = "pytest"
    \/ tool \in cfg.static_code_checkers
    \/ tool \in cfg.formatters

\* pyproject.toml as a step reads it
Document == toml_load(pyproject_toml)

(* C27: in build_basic_project a step that reads pyproject.toml finds the  *)
(* file written, with its tool table; and from the moment the file is      *)
(* written it holds every table of build_toml (build-system, project,      *)
(* dependency-groups, tool, and tool.hatch for Hatchling) and the tool     *)
(* table of every selected tool that a step which has run put there, up to *)
(* and including the end of a successful run.                              *)
C27_TablesKept ==
    /\ (pc \in {"build_tests", "build_static_checkers", "build_formatter"}
        /\ status = "running") =>
          /\ "pyproject.toml" \in written
          /\ <<"tool">> \in Document
    /\ Past("mkdir") =>
          /\ build_toml(cfg) \subseteq Document
          /\ \A tool \in ConfiguredTools :
                (/\ Past(ToolStep(tool))
                 /\ Selected(tool)
                 /\ cfg.configuration_preference # "stand_alone") =>
                    ToolTables(tool) \subseteq Document

\* a successful run with Hatchling and every tool configured in the file
C27_Witness ==
    /\ pc = "done"
    /\ status = "running"
    /\ cfg.build_backend = "Hatchling"
    /\ cfg.configuration_preference = "pyproject_toml"
    /\ cfg.static_code_checkers = StaticCodeCheckers
    /\ cfg.formatters = Formatters
    /\ <<"tool", "hatch", "build", "targets", "wheel">> \in Document
    /\ <<"tool", "pytest">> \in Document

(* C28: once the step of a tool has run, a selected tool has its           *)
(* stand-alone file and no tool table when the configuration preference is *)
(* "stand_alone", and its tool table and no stand-alone file otherwise; a  *)
(* tool that is not selected has neither; and no tool has either before    *)
(* its step.                                                               *)
C28_PreferenceExclusive ==
    pc # "none" =>
        \A tool \in ConfiguredTools :
            LET file == ToolFile(tool) \in written
                table == <<"tool", tool>> \in Document
            IN IF Past(ToolStep(tool)) /\ Selected(tool)
               THEN IF cfg.configuration_preference = "stand_alone"
                    THEN file /\ ~table
                    ELSE table /\ ~file
               ELSE ~file /\ ~table

\* a successful run with stand-alone files for some of the tools only
C28_Witness ==
    /\ pc = "done"
    /\ status = "running"
    /\ cfg.configuration_preference = "stand_alone"
    /\ cfg.static_code_checkers = {"pylint", "flake8"}
    /\ cfg.formatters = {"isort", "black"}
    /\ {"pytest.ini", ".pylintrc", ".isort.cfg"} \subseteq written

---------------------------------------------------------------------------
(* The configuration file and the build call of main, under CliSpec.       *)

\* a new project configuration was collected: prompt_for_project_config ran
Collected == \E i \in DOMAIN asked : asked[i].q = "use_default"

\* the user did not decline to save it
Kept == \A i \in DOMAIN asked : asked[i].q = "save" => asked[i].a

\* main has gone past its "if update_needed" statement (cli.py 353): it is
\* at its last statement, or in the build call of that statement; the call
\* of the --skip-config path comes before it, and main returns after it
PastDump == pc = "build_basic_project" \/ (pc \notin MainPositions /\ ~InTry)

\* the configuration chosen on the path taken
Chosen == [user_config |-> user_config, project_config |-> project_config]

(* C29: main writes the configuration file exactly when a new              *)
(* configuration was collected and is to be kept.  While the file is       *)
(* absent or not a valid configuration, main is still running towards the  *)
(* write and has not built; once it is past the write, the file was        *)
(* written (once, with the chosen configuration) if and only if a          *)
(* configuration was collected and kept; it is never written otherwise,    *)
(* so not when the saved one is reused; the build_basic_project call main has gone on to is made *)
(* with the user and project configuration chosen on the path, and a run   *)
(* that ends normally has made exactly one call.                           *)
C29_ConfigFileWritten ==
    /\ config_file.kind # "valid" =>
          /\ status = "running"
          /\ pc \in MainPositions \ {"build_basic_project"}
          /\ dumps = 0
          /\ built = <<>>
    /\ dumps <= 1
    /\ PastDump => (dumps = 1 <=> (Collected /\ Kept))
    /\ dumps = 1 => /\ Collected /\ Kept
                    /\ config_file = [kind |-> "valid"] @@ Chosen
    /\ pc \notin MainPositions => built # <<>> /\ built[Len(built)] = Chosen
    /\ (pc = "done" /\ status = "running") => Len(built) = 1

(* C30: the minimum Python version stored in the project configuration,    *)
(* and handed to the build (requires-python, the CI workflow), is the      *)
(* version of the label the user chose in the minimum-version question.    *)
C30_MinPyVersionAsShown ==
    \A i \in DOMAIN asked :
        asked[i].q = "min_py_version" =>
            /\ project_config.min_py_version = asked[i].a
            /\ built # <<>> => cfg.min_py_version = asked[i].a

====
